---- MODULE Spec2Model ----
(***************************************************************************)
(* A model of DataProbe.py (the Slicer DataProbe module with the histology *)
(* preview): the coordinate-transform helpers of DataProbeInfoWidget, the  *)
(* voxel-index rounding of processEvent and the tensor-scalar helper       *)
(* CalculateTensorScalars.                                                 *)
(*                                                                         *)
(* Doubles are modelled by integers (matrices, points, tensors) or by      *)
(* integer counts of quarters (the values that are rounded).  An optional  *)
(* Python value is a sequence of length 0 (None) or 1.                     *)
(***************************************************************************)
EXTENDS Integers, Sequences, FiniteSets, TLC

\* ------------------------------------------------------------------ bounds
\* Largest coefficient of the matrices the scene supplies.
MaxCoef == 1
\* Largest slice-view dimension (dx, dy range over 1..MaxDim).
MaxDim == 2
\* Largest rounded value, in quarters (-MaxQuarters/4 .. MaxQuarters/4).
MaxQuarters == 6
\* Largest component of a diagonal tensor.
MaxVal == 1
MaxPos == 2
MaxOther == 2
MaxCalls == 2
MaxQueued == 3
MaxLen == 26
MaxSize == 50

None == <<>>
Some(x) == <<x>>

Idx == 1..4
Coefs == 0..MaxCoef

\* --------------------------------------------------- vtkMatrix4x4 (library)
\* In the operators on matrices an argument is bound once, as the element of
\* a one-element set, so that a nested call is evaluated once and not once
\* for each entry read from it.

\* The product a * b, as vtkMatrix4x4.Multiply4x4(a, b, out) leaves it in out.
Multiply4x4(a, b) ==
  LET product(x, y) ==
        LET c(i, j) ==
              x[i][1] * y[1][j] + x[i][2] * y[2][j] + x[i][3] * y[3][j] + x[i][4] * y[4][j]
            row(i) == <<c(i, 1), c(i, 2), c(i, 3), c(i, 4)>>
        IN  <<row(1), row(2), row(3), row(4)>>
  IN  CHOOSE r \in {product(x, y) : x \in {a}, y \in {b}} : TRUE

\* Index n of a 3x3 minor that leaves out row or column k.
Skip(k, n) == IF n < k THEN n ELSE n + 1

Minor(m, i, j) ==
  LET e(r, c) == m[Skip(i, r)][Skip(j, c)]
  IN  e(1, 1) * (e(2, 2) * e(3, 3) - e(2, 3) * e(3, 2))
    - e(1, 2) * (e(2, 1) * e(3, 3) - e(2, 3) * e(3, 1))
    + e(1, 3) * (e(2, 1) * e(3, 2) - e(2, 2) * e(3, 1))

Cofactor(m, i, j) == IF (i + j) % 2 = 0 THEN Minor(m, i, j) ELSE - Minor(m, i, j)

Determinant(m) ==
  LET det(x) ==
          x[1][1] * Cofactor(x, 1, 1) + x[1][2] * Cofactor(x, 1, 2)
        + x[1][3] * Cofactor(x, 1, 3) + x[1][4] * Cofactor(x, 1, 4)
  IN  CHOOSE r \in {det(x) : x \in {m}} : TRUE

Adjoint(m) ==
  LET adjoint(x) ==
        LET c(i, j) == Cofactor(x, j, i)
            row(i) == <<c(i, 1), c(i, 2), c(i, 3), c(i, 4)>>
        IN  <<row(1), row(2), row(3), row(4)>>
  IN  CHOOSE r \in {adjoint(x) : x \in {m}} : TRUE

\* vtkMatrix4x4.Invert(): the adjoint divided by the determinant; a matrix of
\* determinant 0 is left as it is and nothing is raised.  The matrices that
\* are inverted here have determinant -1, 0 or 1, so the quotient is exact.
Invert(m) ==
  LET quotient(adj, det) ==
        LET q(i, j) == adj[i][j] \div det
            row(i) == <<q(i, 1), q(i, 2), q(i, 3), q(i, 4)>>
        IN  <<row(1), row(2), row(3), row(4)>>
      inverse(x) ==
        CHOOSE r \in {IF det = 0 THEN x ELSE quotient(adj, det) :
                        adj \in {Adjoint(x)}, det \in {Determinant(x)}} : TRUE
  IN  CHOOSE r \in {inverse(x) : x \in {m}} : TRUE

\* vtkMatrix4x4.MultiplyPoint(p): the 4-component product m * p.
MultiplyPoint(m, p) ==
  LET image(x, v) ==
        LET c(i) == x[i][1] * v[1] + x[i][2] * v[2] + x[i][3] * v[3] + x[i][4] * v[4]
        IN  <<c(1), c(2), c(3), c(4)>>
  IN  CHOOSE r \in {image(x, v) : x \in {m}, v \in {p}} : TRUE

\* ------------------------------------------------------------ the scene
Identity == <<<<1, 0, 0, 0>>, <<0, 1, 0, 0>>, <<0, 0, 1, 0>>, <<0, 0, 0, 1>>>>
Zero == <<<<0, 0, 0, 0>>, <<0, 0, 0, 0>>, <<0, 0, 0, 0>>, <<0, 0, 0, 0>>>>

\* A slice's XYToRAS: scale a in x, origin (t, 2t, 3t).
SliceMat(a, t) ==
  <<<<a, 0, 0, t>>, <<0, 1, 0, 2 * t>>, <<0, 0, 1, 3 * t>>, <<0, 0, 0, 1>>>>

\* A volume's IJKToRAS of determinant s: a flip (s = -1) or a collapsed axis
\* (s = 0), sheared and translated by c.
VolMat(s, c) ==
  <<<<s, c, 0, c>>, <<0, 1, 0, - c>>, <<0, 0, 1, 0>>, <<0, 0, 0, 1>>>>

\* A parent transform's matrix of determinant 1 that does not commute with
\* VolMat.
ParentMat(c) ==
  <<<<1, 0, 0, 0>>, <<c + 1, 1, 0, c>>, <<0, 0, 1, 1>>, <<0, 0, 0, 1>>>>

XYToRASPool == {SliceMat(a, t) : a \in 1..2, t \in Coefs}
IJKToRASPool == {VolMat(s, c) : s \in {-1, 0, 1}, c \in Coefs}
\* The host keeps RASToIJK as the inverse of IJKToRAS; the function reads the
\* two independently, so every pairing is drawn, and the zero matrix too.
RASToIJKPool == {Invert(VolMat(s, 1)) : s \in {-1, 0, 1}} \cup {Zero}
ParentPool == {None} \cup {Some(ParentMat(c)) : c \in Coefs} \cup {Some(Zero)}

SliceNodes ==
  [XYToRAS : XYToRASPool, Dimensions : {<<dx, dy, 1>> : dx \in 1..MaxDim, dy \in 1..MaxDim}]
VolumeNodes ==
  [RASToIJK : RASToIJKPool, IJKToRAS : IJKToRASPool, ParentTransformNode : ParentPool]

\* A matrix that is no affine transform: its last row is not (0, 0, 0, 1).
Full == <<<<1, 2, 3, 4>>, <<5, 6, 7, 8>>, <<9, 10, 11, 12>>, <<13, 14, 15, 16>>>>
AffinePool == XYToRASPool \cup IJKToRASPool \cup {Zero, Full}
Points == {<<x, y, z>> : x \in -MaxCoef..MaxCoef, y \in -MaxCoef..MaxCoef, z \in -MaxCoef..MaxCoef}

Return(v) == [kind |-> "return", value |-> v]
Raise(e) == [kind |-> "raise", exc |-> e]

VARIABLES
  sliceNode,   \* the slice node of the view: its XYToRAS matrix and Dimensions
  volumeNode,  \* the volume node: RASToIJK, IJKToRAS and its parent transform
  xf,          \* the last call of a transform helper and what it returned
  affine,      \* the matrix argument of applyAffine
  point,       \* the point argument of applyAffine
  af,          \* the last call of applyAffine: its arguments on entry, its result
  ijkFloat,    \* the continuous coordinates processEvent has to round
  rnd,         \* the last rounding of ijkFloat and what it gave
  calc,        \* the CalculateTensorScalars object of the widget
  tc,          \* the last call of calc: its arguments and result
  shared,      \* a CalculateTensorScalars object called from two threads
  threads,     \* per thread: its call's arguments, its position, its result
  ui,          \* the readout widgets of the info widget and its showZoomedImage
  pe,          \* the last handler that ran on the readouts and how it ended
  hosts,       \* the observers registered on the crosshair node, the red slice node and the scene
  widget,      \* the node references and observer tags the info widget holds
  ro,          \* the calls of removeObservers so far and what they removed
  unzoomed,    \* the members of the widget behind the unzoomed preview
  queued,      \* the updateUnzoomedImage callbacks waiting in the event loop
  te,          \* the last handler that ran on the preview and how it ended
  module,      \* the DataProbe module object: its showZoomedSlice attribute, its infoWidget
  mc,          \* the last call of a method of the module object and how it ended
  name,        \* the name argument of fitName
  nameSize,    \* the nameSize argument of fitName, None when left out
  fn           \* the last call of fitName and what it returned

transformVars == <<sliceNode, volumeNode, xf>>
affineVars == <<affine, point, af>>
roundVars == <<ijkFloat, rnd>>
tensorVars == <<calc, tc>>
concVars == <<shared, threads>>
readoutVars == <<ui, pe>>
observerVars == <<hosts, widget, ro>>
previewVars == <<unzoomed, queued, te>>
moduleVars == <<module, mc>>
fitVars == <<name, nameSize, fn>>
widgetVars == <<readoutVars, observerVars, previewVars, moduleVars, fitVars>>
vars == <<transformVars, affineVars, roundVars, tensorVars, concVars, widgetVars>>

NoCall == [op |-> "none"]

\* ------------------------------------------------- DataProbeInfoWidget
\* Mutant: the two factors of the final product swapped.
getXYToIJKMatrix_swapped(sNode, vNode) ==
  LET RASToIJK ==
        IF vNode.ParentTransformNode # None
          THEN Invert(Multiply4x4(vNode.ParentTransformNode[1], vNode.IJKToRAS))
          ELSE vNode.RASToIJK
  IN  Return(Multiply4x4(sNode.XYToRAS, RASToIJK))

\* Mutant: the parent matrix on the right of IJKToRAS.
getXYToIJKMatrix_parentRight(sNode, vNode) ==
  LET RASToIJK ==
        IF vNode.ParentTransformNode # None
          THEN Invert(Multiply4x4(vNode.IJKToRAS, vNode.ParentTransformNode[1]))
          ELSE vNode.RASToIJK
  IN  Return(Multiply4x4(RASToIJK, sNode.XYToRAS))

\* Mutant: a singular matrix is refused.
getXYToIJKMatrix_checked(sNode, vNode) ==
  LET RASToIJK ==
        IF vNode.ParentTransformNode # None
          THEN Multiply4x4(vNode.ParentTransformNode[1], vNode.IJKToRAS)
          ELSE vNode.RASToIJK
  IN  IF Determinant(RASToIJK) = 0
        THEN Raise("SingularMatrixError")
        ELSE Return(Multiply4x4(
               IF vNode.ParentTransformNode # None THEN Invert(RASToIJK) ELSE RASToIJK,
               sNode.XYToRAS))

getXYToIJKMatrix(sNode, vNode) ==
  LET XYToRAS == sNode.XYToRAS
      volumeTransformNode == vNode.ParentTransformNode
      RASToIJK ==
        IF volumeTransformNode # None
          THEN Invert(Multiply4x4(volumeTransformNode[1], vNode.IJKToRAS))
          ELSE vNode.RASToIJK
  IN  Return(Multiply4x4(RASToIJK, XYToRAS))

\* Mutant: the corners in the order bottom-left, top-right, top-left,
\* bottom-right.
getXYCorners_crossed(sNode) ==
  LET dx == sNode.Dimensions[1]
      dy == sNode.Dimensions[2]
  IN  <<<<0, 0>>, <<dx - 1, dy - 1>>, <<0, dy - 1>>, <<dx - 1, 0>>>>

getXYCorners(sNode) ==
  LET dx == sNode.Dimensions[1]
      dy == sNode.Dimensions[2]
      bottomLeft == <<0, 0>>
      topLeft == <<0, dy - 1>>
      topRight == <<dx - 1, dy - 1>>
      bottomRight == <<dx - 1, 0>>
  IN  <<bottomLeft, topLeft, topRight, bottomRight>>

getIJKCorners(sNode, vNode) ==
  LET ijkCorners(xyToIJK, xyCorners) ==
        IF xyToIJK.kind = "raise" THEN xyToIJK
        ELSE Return([n \in 1..Len(xyCorners) |->
               LET pointHomogeneus == xyCorners[n] \o <<0, 1>>
               IN  SubSeq(MultiplyPoint(xyToIJK.value, pointHomogeneus), 1, 3)])
  IN  CHOOSE r \in {ijkCorners(xyToIJK, xyCorners) :
                      xyToIJK \in {getXYToIJKMatrix(sNode, vNode)},
                      xyCorners \in {getXYCorners(sNode)}} : TRUE

\* numpy.hstack((point, 1)): the point with a homogeneous 1 appended.
hstack1(p) == p \o <<1>>

\* numpy.dot(m, v) of a 4x4 matrix and a 4-vector.
dot(m, v) ==
  LET product(x, y) ==
        LET c(i) == x[i][1] * y[1] + x[i][2] * y[2] + x[i][3] * y[3] + x[i][4] * y[4]
        IN  <<c(1), c(2), c(3), c(4)>>
  IN  CHOOSE r \in {product(x, y) : x \in {m}, y \in {v}} : TRUE

\* Mutant: the point extended with 0, which drops the translation.
applyAffine_direction(m, p) == SubSeq(dot(m, p \o <<0>>), 1, 3)

applyAffine(m, p) == SubSeq(dot(m, hstack1(p)), 1, 3)

\* A double to be rounded: a finite value of q quarters, NaN, or an infinity
\* of sign s.
Finite(q) == [cls |-> "finite", q |-> q]
NaN == [cls |-> "nan", q |-> 0]
Inf(s) == [cls |-> "inf", q |-> s]

\* Python 2 round(x): the nearest integer as a float, a tie away from zero;
\* NaN and the infinities are returned as they are.
round(x) ==
  IF x.cls = "finite"
    THEN Finite(4 * (IF x.q >= 0 THEN (x.q + 2) \div 4 ELSE - ((- x.q + 2) \div 4)))
    ELSE x

\* Python int(x) of a float: truncation; ValueError for NaN, OverflowError
\* for an infinity.
int(x) ==
  CASE x.cls = "finite" -> Return(IF x.q >= 0 THEN x.q \div 4 ELSE - ((- x.q) \div 4))
    [] x.cls = "nan" -> Raise("ValueError")
    [] x.cls = "inf" -> Raise("OverflowError")

\* _roundInt: int(round(value)), and 0 when that raises ValueError.
_roundInt(value) ==
  LET r == int(round(value))
  IN  IF r.kind = "raise" /\ r.exc = "ValueError" THEN Return(0) ELSE r

\* ijk = [_roundInt(value) for value in ijkFloat]: the first element that
\* raises ends the comprehension with its exception.
roundAll(values) ==
  LET each == [n \in 1..Len(values) |-> _roundInt(values[n])]
      raising == {n \in 1..Len(values) : each[n].kind = "raise"}
  IN  IF raising = {} THEN Return([n \in 1..Len(values) |-> each[n].value])
      ELSE each[CHOOSE n \in raising : \A k \in raising : n <= k]

\* ------------------------------------------------ CalculateTensorScalars
\* The operations of teem.vtkDiffusionTensorMathematics that are modelled, by
\* their enumeration values.
VTK_TENS_TRACE == 0
VTK_TENS_DETERMINANT == 1
VTK_TENS_FRACTIONAL_ANISOTROPY == 3
Operations == {VTK_TENS_TRACE, VTK_TENS_DETERMINANT, VTK_TENS_FRACTIONAL_ANISOTROPY}

\* Symmetric tensors as 9-tuples, row by row.
DiagTensor(a, b, c) == <<a, 0, 0, 0, b, 0, 0, 0, c>>
ZeroTensor == DiagTensor(0, 0, 0)
Tensors ==
  {DiagTensor(a, b, c) : a \in 0..MaxVal, b \in 0..MaxVal, c \in 0..MaxVal}
    \cup {<<2, 1, 0, 1, 2, 0, 0, 0, 1>>}
\* Arguments with 8 and with 10 components.
BadTensors == {SubSeq(DiagTensor(1, 1, 1), 1, 8), DiagTensor(1, 1, 1) \o <<1>>}

RECURSIVE GCD(_, _)
GCD(a, b) == IF b = 0 THEN a ELSE GCD(b, a % b)

\* The fraction n / d (n >= 0, d > 0) in lowest terms, as <<numerator,
\* denominator>>; a scalar of the output image is such a fraction.
Fraction(n, d) == <<n \div GCD(n, d), d \div GCD(n, d)>>
Integer(n) == <<n, 1>>

Trace(t) == t[1] + t[5] + t[9]

Determinant3(t) ==
    t[1] * (t[5] * t[9] - t[6] * t[8])
  - t[2] * (t[4] * t[9] - t[6] * t[7])
  + t[3] * (t[4] * t[8] - t[5] * t[7])

\* The sum of the squares of the components: for a symmetric tensor the sum
\* of the squares of its eigenvalues.
NormSq(t) ==
  t[1] * t[1] + t[2] * t[2] + t[3] * t[3] + t[4] * t[4] + t[5] * t[5]
    + t[6] * t[6] + t[7] * t[7] + t[8] * t[8] + t[9] * t[9]

\* The square of the fractional anisotropy of a symmetric tensor with
\* eigenvalues l1, l2, l3:
\*   ((l1-l2)^2 + (l2-l3)^2 + (l3-l1)^2) / (2 (l1^2 + l2^2 + l3^2))
\*     = (3 NormSq - Trace^2) / (2 NormSq),
\* and 0 for the zero tensor.  The anisotropy itself is its square root; the
\* model carries the square, which is exact.
FractionalAnisotropySq(t) ==
  IF NormSq(t) = 0 THEN Integer(0)
  ELSE Fraction(3 * NormSq(t) - Trace(t) * Trace(t), 2 * NormSq(t))

\* The scalar vtkDiffusionTensorMathematics computes for operation op.
ComputeScalar(op, t) ==
  CASE op = VTK_TENS_TRACE -> Integer(Trace(t))
    [] op = VTK_TENS_DETERMINANT -> Integer(Determinant3(t))
    [] op = VTK_TENS_FRACTIONAL_ANISOTROPY -> FractionalAnisotropySq(t)

\* The output image of the filter: its number of scalar components and its
\* one scalar.  An output without scalars has 0 components.
NoOutput == [components |-> 0, scalar |-> Integer(0)]

\* dti_math.SetOperation(op): a changed operation marks the filter modified.
SetOperation(self, op) ==
  IF self.Operation = op THEN self
  ELSE [self EXCEPT !.Operation = op, !.modified = TRUE]

\* dti_math.Update(): a modified pipeline executes again on the tensor held
\* and the operation selected; components is the number of scalar components
\* the execution produces (0: it produces no scalars).
Update(self, components) ==
  IF self.modified
    THEN [self EXCEPT !.modified = FALSE,
                      !.output = IF components = 0 THEN NoOutput
                                 ELSE [components |-> components,
                                       scalar |-> ComputeScalar(self.Operation,
                                                                self.tensor_data)]]
    ELSE self

\* Mutant: a tensor of more than 9 components is let through.
validTensor_atLeast(tensor) == Len(tensor) >= 9

\* The length check at the head of __call__.
validTensor(tensor) == Len(tensor) = 9

\* Mutant: the operation is tested for truth, not for None.
selectOperation_truthy(self, operation) ==
  IF operation # None /\ operation[1] # 0
    THEN SetOperation(self, operation[1])
    ELSE SetOperation(self, VTK_TENS_FRACTIONAL_ANISOTROPY)

\* Mutant: without an operation the filter keeps the one it has.
selectOperation_keep(self, operation) ==
  IF operation # None THEN SetOperation(self, operation[1]) ELSE self

selectOperation(self, operation) ==
  IF operation # None
    THEN SetOperation(self, operation[1])
    ELSE SetOperation(self, VTK_TENS_FRACTIONAL_ANISOTROPY)

\* Mutant: a scalar of 0 is taken for no result.
readOutput_zeroIsNone(output) ==
  IF output.components > 0 /\ output.scalar # Integer(0)
    THEN Return(Some(output.scalar))
    ELSE Return(None)

readOutput(output) ==
  IF output.components > 0
    THEN Return(Some(output.scalar))
    ELSE Return(None)

\* CalculateTensorScalars.__call__(tensor, operation): the object afterwards
\* and what the call returns or raises.
\* Mutant: the tensor is written before its length is checked.
__call___writeFirst(self, tensor, operation, components) ==
  IF ~ validTensor(tensor)
    THEN [self |-> [self EXCEPT !.tensor_data = tensor, !.modified = TRUE],
          ret |-> Raise("ValueError")]
    ELSE [self |-> Update(selectOperation([self EXCEPT !.tensor_data = tensor, !.modified = TRUE],
                                          operation), components),
          ret |-> readOutput(Update(selectOperation([self EXCEPT !.tensor_data = tensor,
                                                                  !.modified = TRUE],
                                                    operation), components).output)]

__call__(self, tensor, operation, components) ==
  LET call(obj) ==
        LET written == [obj EXCEPT !.tensor_data = tensor, !.modified = TRUE]
            updated(selected) == Update(selected, components)
            done(u) == [self |-> u, ret |-> readOutput(u.output)]
        IN  CHOOSE r \in {done(u) :
                           u \in {updated(sel) : sel \in {selectOperation(written, operation)}}} : TRUE
  IN  IF ~ validTensor(tensor)
        THEN [self |-> self, ret |-> Raise("ValueError")]
        ELSE CHOOSE r \in {call(obj) : obj \in {self}} : TRUE

\* CalculateTensorScalars.__init__: the tensor array is allocated and not
\* written, so it holds any values; the filter has not executed.
FreshObjects ==
  [tensor_data : Tensors, Operation : Operations, modified : {TRUE}, output : {NoOutput}]

\* The parts of the state a specification does not exercise.
TransformIdle ==
  /\ sliceNode = [XYToRAS |-> Identity, Dimensions |-> <<1, 1, 1>>]
  /\ volumeNode = [RASToIJK |-> Identity, IJKToRAS |-> Identity, ParentTransformNode |-> None]
  /\ xf = NoCall

AffineIdle ==
  /\ affine = Identity
  /\ point = <<0, 0, 0>>
  /\ af = NoCall

RoundIdle ==
  /\ ijkFloat = <<Finite(0), Finite(0), Finite(0)>>
  /\ rnd = NoCall

TensorIdle ==
  /\ calc = [tensor_data |-> ZeroTensor, Operation |-> VTK_TENS_TRACE,
             modified |-> TRUE, output |-> NoOutput]
  /\ tc = NoCall

ConcIdle ==
  /\ shared = [tensor_data |-> ZeroTensor, Operation |-> VTK_TENS_TRACE,
               modified |-> TRUE, output |-> NoOutput]
  /\ threads = <<>>

\* The readouts as _createSmall leaves them: empty labels, nothing hidden but
\* the displayable-manager label and (by onShowZoomedImage(False)) the zoomed
\* image.
Layers == {"L", "F", "B"}
LayerOrder == <<"L", "F", "B">>
EmptyLayer == [name |-> None, ijk |-> None, value |-> None]
CreatedReadouts ==
  [viewerColor |-> [text |-> "", style |-> None, shown |-> TRUE],
   viewInfo |-> [text |-> None, shown |-> TRUE],
   layer |-> [l \in Layers |-> EmptyLayer],
   displayableManagerInfo |-> [text |-> None, shown |-> FALSE],
   zoomedImageLabel |-> [pixmap |-> None, shown |-> FALSE],
   viewerFrame |-> TRUE,
   showZoomedImageBox |-> TRUE,
   showUnzoomedImageBox |-> TRUE,
   title |-> "Data Probe",
   showZoomedImage |-> FALSE]

ReadoutIdle ==
  /\ ui = CreatedReadouts
  /\ pe = NoCall

\* Observers: a host keeps a set of <<tag, callback>>; AddObserver hands out
\* the tag after the last one the host gave, the first being 1.
HostNames == {"crosshair", "redSlice", "scene"}
Foreign(n) == {<<tag, "other">> : tag \in 1..n}
AddObserver(observers, callback) == observers \cup {<<Cardinality(observers) + 1, callback>>}
LastTag(observers) == Cardinality(observers)
RemoveObserver(observers, tag) == {o \in observers : o[1] # tag}

\* DataProbeInfoWidget.__init__, lines 82-86 and 107-120, in a scene where
\* the hosts hold n[h] observers of other objects and the crosshair node and
\* the red slice node exist or not.
constructed(n, hasCrosshair, hasRedSlice) ==
  LET crosshair == IF hasCrosshair THEN AddObserver(Foreign(n["crosshair"]), "processEvent")
                                   ELSE Foreign(n["crosshair"])
      redSlice == IF hasRedSlice THEN AddObserver(Foreign(n["redSlice"]), "sliceModified")
                                 ELSE Foreign(n["redSlice"])
      scene == AddObserver(Foreign(n["scene"]), "removeUnzoomedImage")
  IN  [hosts |-> [crosshair |-> crosshair, redSlice |-> redSlice, scene |-> scene],
       widget |-> [CrosshairNode |-> hasCrosshair,
                   CrosshairNodeObserverTag |-> IF hasCrosshair THEN Some(LastTag(crosshair)) ELSE None,
                   redSliceNode |-> hasRedSlice,
                   redSliceNodeObserverTag |-> IF hasRedSlice THEN Some(LastTag(redSlice)) ELSE None]]

NoRemovals == [op |-> "none", calls |-> 0, removed |-> [h \in HostNames |-> 0]]

ObserverIdle ==
  /\ hosts = constructed([h \in HostNames |-> 0], FALSE, FALSE).hosts
  /\ widget = constructed([h \in HostNames |-> 0], FALSE, FALSE).widget
  /\ ro = NoRemovals

\* The preview as __init__ leaves it: lines 95, 117-118 and, in
\* _createSmall, the unchecked box and onShowUnzoomedImage(False).
CreatedPreview ==
  [unzoomedImagePending |-> FALSE,
   showUnzoomedImage |-> FALSE,
   scaledUnzoomedImage |-> FALSE,
   checked |-> FALSE,
   unzoomedImageLabel |-> [pixmap |-> "empty", shown |-> FALSE]]

PreviewIdle ==
  /\ unzoomed = CreatedPreview
  /\ queued = 0
  /\ te = NoCall

\* The module object after DataProbe.__init__: no instance attribute hides
\* the method showZoomedSlice (None), there is no info widget yet, and the
\* timer of line 38 has addView waiting.
CreatedModule == [showZoomedSlice |-> None, infoWidget |-> FALSE, addViewPending |-> TRUE]

ModuleIdle ==
  /\ module = CreatedModule
  /\ mc = NoCall

FitIdle ==
  /\ name = <<>>
  /\ nameSize = None
  /\ fn = NoCall

WidgetIdle == ReadoutIdle /\ ObserverIdle /\ PreviewIdle /\ ModuleIdle /\ FitIdle

InitTransform ==
  /\ sliceNode \in SliceNodes
  /\ volumeNode \in VolumeNodes
  /\ xf = NoCall
  /\ AffineIdle
  /\ RoundIdle
  /\ TensorIdle
  /\ ConcIdle
  /\ WidgetIdle

GetXYToIJKMatrix ==
  /\ xf' = [op |-> "getXYToIJKMatrix", ret |-> getXYToIJKMatrix(sliceNode, volumeNode)]
  /\ UNCHANGED <<sliceNode, volumeNode, affineVars, roundVars, tensorVars, concVars, widgetVars>>

GetIJKCorners ==
  /\ xf' = [op |-> "getIJKCorners", ret |-> getIJKCorners(sliceNode, volumeNode)]
  /\ UNCHANGED <<sliceNode, volumeNode, affineVars, roundVars, tensorVars, concVars, widgetVars>>

NextTransform == GetXYToIJKMatrix \/ GetIJKCorners

SpecTransform == InitTransform /\ [][NextTransform]_vars

\* applyAffine, the helper of changeSliceOffsetFromClickedPreview, on a matrix
\* and a point.
InitAffine ==
  /\ affine \in AffinePool
  /\ point \in Points
  /\ af = NoCall
  /\ TransformIdle
  /\ RoundIdle
  /\ TensorIdle
  /\ ConcIdle
  /\ WidgetIdle

ApplyAffine ==
  /\ af' = [op |-> "applyAffine", affine |-> affine, point |-> point,
            ret |-> applyAffine(affine, point)]
  /\ UNCHANGED <<affine, point, transformVars, roundVars, tensorVars, concVars, widgetVars>>

NextAffine == ApplyAffine

SpecAffine == InitAffine /\ [][NextAffine]_vars

\* The rounding of the continuous IJK coordinates in processEvent.
Doubles == {Finite(q) : q \in -MaxQuarters..MaxQuarters} \cup {NaN, Inf(1), Inf(-1)}

InitRound ==
  /\ ijkFloat \in Doubles \X Doubles \X Doubles
  /\ rnd = NoCall
  /\ TransformIdle
  /\ AffineIdle
  /\ TensorIdle
  /\ ConcIdle
  /\ WidgetIdle

RoundIJK ==
  /\ rnd' = [op |-> "roundIJK", ret |-> roundAll(ijkFloat)]
  /\ UNCHANGED <<ijkFloat, transformVars, affineVars, tensorVars, concVars, widgetVars>>

NextRound == RoundIJK

SpecRound == InitRound /\ [][NextRound]_vars

\* Calls of the widget's one CalculateTensorScalars object.
InitTensor ==
  /\ calc \in FreshObjects
  /\ tc = NoCall
  /\ TransformIdle
  /\ AffineIdle
  /\ RoundIdle
  /\ ConcIdle
  /\ WidgetIdle

Call ==
  \E tensor \in Tensors \cup BadTensors, operation \in {None} \cup {Some(op) : op \in Operations} :
    \E components \in IF validTensor(tensor) THEN 0..1 ELSE {0} :
      LET result == __call__(calc, tensor, operation, components)
      IN  /\ calc' = result.self
          /\ tc' = [op |-> "__call__", tensor |-> tensor, operation |-> operation,
                    components |-> components,
                    used |-> tc.op # "none",
                    otherTensor |-> calc.tensor_data # tensor,
                    otherOperation |-> selectOperation(calc, operation).Operation # calc.Operation,
                    ret |-> result.ret]
          /\ UNCHANGED <<transformVars, affineVars, roundVars, concVars, widgetVars>>

NextTensor == Call

SpecTensor == InitTensor /\ [][NextTensor]_vars

\* Two calls of one CalculateTensorScalars object from two threads, each
\* going through the statements of __call__ one at a time: the write of the
\* tensor (SetTuple9 and the two Modified), the selection of the operation,
\* Update, and the read of the output.
Threads == 1..2
ThreadTensors == {DiagTensor(a, 0, 0) : a \in 0..MaxVal}
ThreadCalls ==
  [tensor : ThreadTensors, operation : {None} \cup {Some(op) : op \in Operations},
   pc : {"write"}, ret : {Return(None)}]

InitConcurrent ==
  /\ shared \in {o \in FreshObjects : o.tensor_data = ZeroTensor /\ o.Operation = VTK_TENS_TRACE}
  /\ threads \in [Threads -> ThreadCalls]
  /\ TransformIdle
  /\ AffineIdle
  /\ RoundIdle
  /\ TensorIdle
  /\ WidgetIdle

WriteTensor ==
  \E t \in Threads :
    /\ threads[t].pc = "write"
    /\ validTensor(threads[t].tensor)
    /\ shared' = [shared EXCEPT !.tensor_data = threads[t].tensor, !.modified = TRUE]
    /\ threads' = [threads EXCEPT ![t].pc = "select"]
    /\ UNCHANGED <<transformVars, affineVars, roundVars, tensorVars, widgetVars>>

SelectOperation ==
  \E t \in Threads :
    /\ threads[t].pc = "select"
    /\ shared' = selectOperation(shared, threads[t].operation)
    /\ threads' = [threads EXCEPT ![t].pc = "update"]
    /\ UNCHANGED <<transformVars, affineVars, roundVars, tensorVars, widgetVars>>

UpdateFilter ==
  \E t \in Threads :
    /\ threads[t].pc = "update"
    /\ shared' = Update(shared, 1)
    /\ threads' = [threads EXCEPT ![t].pc = "read"]
    /\ UNCHANGED <<transformVars, affineVars, roundVars, tensorVars, widgetVars>>

ReadOutput ==
  \E t \in Threads :
    /\ threads[t].pc = "read"
    /\ threads' = [threads EXCEPT ![t].pc = "done", ![t].ret = readOutput(shared.output)]
    /\ UNCHANGED <<shared, transformVars, affineVars, roundVars, tensorVars, widgetVars>>

NextConcurrent == WriteTensor \/ SelectOperation \/ UpdateFilter \/ ReadOutput

SpecConcurrent == InitConcurrent /\ [][NextConcurrent]_vars

\* The readouts of the info widget under processEvent and the zoomed-image
\* handler.  What a label shows is kept as the cursor position it was
\* computed for: Some(p) for text of position p, None for the empty string.
Positions == 1..MaxPos

\* onShowZoomedImage: lines 651-658.
onShowZoomedImage(w, value) ==
  IF value
    THEN [w EXCEPT !.showZoomedImage = value, !.zoomedImageLabel.shown = TRUE]
    ELSE [w EXCEPT !.showZoomedImage = value,
                   !.zoomedImageLabel = [pixmap |-> None, shown |-> FALSE]]

\* The branch of processEvent taken when the cursor is in no view.
resetReadouts(w) ==
  [w EXCEPT !.viewerColor.text = "",
            !.viewInfo.text = None,
            !.layer = [l \in Layers |-> EmptyLayer],
            !.zoomedImageLabel.shown = FALSE,
            !.viewerColor.shown = FALSE,
            !.viewInfo.shown = FALSE,
            !.viewerFrame = FALSE,
            !.showZoomedImageBox = TRUE,
            !.showUnzoomedImageBox = TRUE]

\* The events processEvent can meet.  failAt is the layer (1..3) whose
\* coordinates _roundInt cannot convert, 0 when all convert; only a layer
\* with a volume is rounded.
CursorEvents ==
  {e \in [insideView : BOOLEAN, sliceNode : BOOLEAN, sliceLogic : BOOLEAN,
          pos : Positions, failAt : 0..3, hasVolume : BOOLEAN, info : BOOLEAN,
          batch : BOOLEAN, pixmap : BOOLEAN, named : BOOLEAN] :
     /\ e.sliceLogic => e.sliceNode
     /\ e.failAt # 0 => e.hasVolume /\ ~ e.info /\ ~ e.batch /\ ~ e.pixmap /\ ~ e.named
     /\ ~ (e.insideView /\ e.sliceNode /\ e.sliceLogic) =>
          /\ e.pos = 1 /\ e.failAt = 0 /\ ~ e.hasVolume /\ ~ e.info
          /\ ~ e.batch /\ ~ e.pixmap /\ ~ e.named}

\* processEvent: lines 217-318.
processEvent(w, e) ==
  IF ~ e.insideView \/ ~ e.sliceNode \/ ~ e.sliceLogic
    THEN [self |-> resetReadouts(w), ret |-> Return("reset")]
    ELSE
      LET shown == [w EXCEPT !.viewerColor = [text |-> " ", style |-> Some(e.pos), shown |-> TRUE],
                             !.viewInfo = [text |-> Some(e.pos), shown |-> TRUE],
                             !.viewerFrame = TRUE,
                             !.showZoomedImageBox = FALSE,
                             !.showUnzoomedImageBox = FALSE]
          last == IF e.failAt = 0 THEN 3 ELSE e.failAt - 1
          layered == [shown EXCEPT !.layer =
                        [l \in Layers |->
                           IF \E n \in 1..last : LayerOrder[n] = l
                             THEN [name |-> Some(e.pos), ijk |-> Some(e.pos), value |-> Some(e.pos)]
                             ELSE w.layer[l]]]
          managed == IF e.info
                       THEN [layered EXCEPT !.displayableManagerInfo =
                                              [text |-> Some(e.pos), shown |-> TRUE]]
                       ELSE [layered EXCEPT !.displayableManagerInfo.shown = FALSE]
          zoomed == IF ~ e.batch /\ e.hasVolume /\ w.showZoomedImage /\ e.pixmap
                      THEN onShowZoomedImage([managed EXCEPT !.zoomedImageLabel.pixmap = Some(e.pos)],
                                             w.showZoomedImage)
                      ELSE managed
          titled == [zoomed EXCEPT !.title = IF e.named THEN "Data Probe: name" ELSE "Data Probe"]
      IN  IF e.failAt # 0
            THEN [self |-> layered, ret |-> Raise("OverflowError")]
            ELSE [self |-> titled, ret |-> Return("populated")]

InitReadouts ==
  /\ FitIdle
  /\ ModuleIdle
  /\ ReadoutIdle
  /\ ObserverIdle
  /\ PreviewIdle
  /\ TransformIdle
  /\ AffineIdle
  /\ RoundIdle
  /\ TensorIdle
  /\ ConcIdle

ProcessEvent ==
  \E e \in CursorEvents :
    LET result == processEvent(ui, e)
    IN  /\ ui' = result.self
        /\ pe' = [op |-> "processEvent", ret |-> result.ret]
        /\ UNCHANGED <<observerVars, previewVars, moduleVars, fitVars, transformVars, affineVars, roundVars, tensorVars, concVars>>

OnShowZoomedImage ==
  \E value \in BOOLEAN :
    /\ ui' = onShowZoomedImage(ui, value)
    /\ pe' = [op |-> "onShowZoomedImage", ret |-> Return("done")]
    /\ UNCHANGED <<observerVars, previewVars, moduleVars, fitVars, transformVars, affineVars, roundVars, tensorVars, concVars>>

NextReadouts == ProcessEvent \/ OnShowZoomedImage

SpecReadouts == InitReadouts /\ [][NextReadouts]_vars

\* Python's truth of an observer tag: None and 0 are false.
truthy(tag) == tag # None /\ tag[1] # 0

\* removeObservers: lines 134-142.  The result carries the hosts, the widget
\* and, per host, how many RemoveObserver calls were made.
removeObservers(h, w) ==
  LET onCrosshair == w.CrosshairNode /\ truthy(w.CrosshairNodeObserverTag)
      onRedSlice == w.redSliceNode /\ truthy(w.redSliceNodeObserverTag)
  IN  [hosts |-> [h EXCEPT !.crosshair = IF onCrosshair
                                            THEN RemoveObserver(@, w.CrosshairNodeObserverTag[1])
                                            ELSE @,
                           !.redSlice = IF onRedSlice
                                           THEN RemoveObserver(@, w.redSliceNodeObserverTag[1])
                                           ELSE @],
       widget |-> [w EXCEPT !.CrosshairNodeObserverTag = None,
                            !.redSliceNodeObserverTag = None],
       removed |-> [crosshair |-> IF onCrosshair THEN 1 ELSE 0,
                    redSlice |-> IF onRedSlice THEN 1 ELSE 0,
                    scene |-> 0]]

InitObservers ==
  /\ \E n \in [HostNames -> 0..MaxOther], hasCrosshair \in BOOLEAN, hasRedSlice \in BOOLEAN :
       /\ hosts = constructed(n, hasCrosshair, hasRedSlice).hosts
       /\ widget = constructed(n, hasCrosshair, hasRedSlice).widget
  /\ ro = NoRemovals
  /\ ModuleIdle
  /\ FitIdle
  /\ ReadoutIdle
  /\ PreviewIdle
  /\ TransformIdle
  /\ AffineIdle
  /\ RoundIdle
  /\ TensorIdle
  /\ ConcIdle

RemoveObservers ==
  LET result == removeObservers(hosts, widget)
  IN  /\ ro.calls < MaxCalls
      /\ hosts' = result.hosts
      /\ widget' = result.widget
      /\ ro' = [op |-> "removeObservers", calls |-> ro.calls + 1,
                removed |-> [h \in HostNames |-> ro.removed[h] + result.removed[h]]]
      /\ UNCHANGED <<readoutVars, previewVars, moduleVars, fitVars, transformVars, affineVars, roundVars, tensorVars, concVars>>

NextObservers == RemoveObservers

SpecObservers == InitObservers /\ [][NextObservers]_vars

\* onShowUnzoomedImage: lines 660-669.  hasVolume is whether the red
\* slice's background layer has a volume to make the scaled image of.
onShowUnzoomedImage(w, value, hasVolume) ==
  IF value
    THEN LET scaled == w.scaledUnzoomedImage \/ hasVolume
             fresh == ~ w.scaledUnzoomedImage /\ hasVolume
         IN  [w EXCEPT !.showUnzoomedImage = value,
                       !.scaledUnzoomedImage = scaled,
                       !.unzoomedImageLabel = [pixmap |-> IF fresh THEN "image" ELSE @.pixmap,
                                               shown |-> TRUE]]
    ELSE [w EXCEPT !.showUnzoomedImage = value, !.unzoomedImageLabel.shown = FALSE]

\* sliceModified: lines 320-323.  The result says whether a callback was
\* handed to the event loop.
sliceModified(w) ==
  IF ~ w.unzoomedImagePending
    THEN [self |-> [w EXCEPT !.unzoomedImagePending = TRUE], singleShot |-> 1]
    ELSE [self |-> w, singleShot |-> 0]

\* updateUnzoomedImage: lines 325-336.
updateUnzoomedImage(w, hasVolume, batch, pixmap) ==
  LET cleared == [w EXCEPT !.unzoomedImagePending = FALSE]
  IN  IF ~ batch /\ hasVolume /\ w.scaledUnzoomedImage /\ w.showUnzoomedImage /\ pixmap
        THEN onShowUnzoomedImage([cleared EXCEPT !.unzoomedImageLabel.pixmap = "outlined"],
                                 w.showUnzoomedImage, hasVolume)
        ELSE cleared

\* removeUnzoomedImage: lines 144-148; setChecked(False) on a checked box
\* emits toggled(False), which is connected to onShowUnzoomedImage.
removeUnzoomedImage(w) ==
  LET unchecked == IF w.checked
                     THEN [onShowUnzoomedImage(w, FALSE, FALSE) EXCEPT !.checked = FALSE]
                     ELSE w
  IN  [unchecked EXCEPT !.unzoomedImageLabel.pixmap = "empty", !.scaledUnzoomedImage = FALSE]

InitPreview ==
  /\ FitIdle
  /\ ModuleIdle
  /\ PreviewIdle
  /\ ReadoutIdle
  /\ ObserverIdle
  /\ TransformIdle
  /\ AffineIdle
  /\ RoundIdle
  /\ TensorIdle
  /\ ConcIdle

PreviewFrame == <<readoutVars, observerVars, moduleVars, fitVars, transformVars, affineVars, roundVars, tensorVars, concVars>>

\* A ModifiedEvent of the red slice node.
SliceModified ==
  LET result == sliceModified(unzoomed)
  IN  /\ queued + result.singleShot <= MaxQueued
      /\ unzoomed' = result.self
      /\ queued' = queued + result.singleShot
      /\ te' = [op |-> "sliceModified", ret |-> Return("done")]
      /\ UNCHANGED PreviewFrame

\* The event loop runs one queued callback.
TimerFires ==
  \E hasVolume \in BOOLEAN, batch \in BOOLEAN, pixmap \in BOOLEAN :
    /\ queued > 0
    /\ queued' = queued - 1
    /\ unzoomed' = updateUnzoomedImage(unzoomed, hasVolume, batch, pixmap)
    /\ te' = [op |-> "updateUnzoomedImage", ret |-> Return("done")]
    /\ UNCHANGED PreviewFrame

\* changeSliceOffsetFromClickedPreview: lines 461-497.  Without a volume it
\* fails at line 480; with one, SetXYZOrigin may modify the red slice node,
\* whose observer sliceModified then runs before line 497 calls
\* updateUnzoomedImage.
PreviewClicked ==
  \E hasVolume \in BOOLEAN, modified \in BOOLEAN, batch \in BOOLEAN, pixmap \in BOOLEAN :
    IF ~ hasVolume
      THEN /\ ~ modified /\ ~ batch /\ ~ pixmap
           /\ te' = [op |-> "changeSliceOffsetFromClickedPreview", ret |-> Raise("AttributeError")]
           /\ UNCHANGED <<unzoomed, queued, PreviewFrame>>
      ELSE LET observed == IF modified THEN sliceModified(unzoomed)
                                       ELSE [self |-> unzoomed, singleShot |-> 0]
           IN  /\ queued + observed.singleShot <= MaxQueued
               /\ queued' = queued + observed.singleShot
               /\ unzoomed' = updateUnzoomedImage(observed.self, hasVolume, batch, pixmap)
               /\ te' = [op |-> "changeSliceOffsetFromClickedPreview", ret |-> Return("done")]
               /\ UNCHANGED PreviewFrame

\* The user toggles the 'Show Unzoomed Slice' box.
UnzoomedBoxToggled ==
  \E hasVolume \in BOOLEAN :
    /\ unzoomed' = [onShowUnzoomedImage(unzoomed, ~ unzoomed.checked, hasVolume)
                      EXCEPT !.checked = ~ unzoomed.checked]
    /\ te' = [op |-> "onShowUnzoomedImage", ret |-> Return("done")]
    /\ UNCHANGED <<queued, PreviewFrame>>

\* The scene's EndCloseEvent.
SceneClosed ==
  /\ unzoomed' = removeUnzoomedImage(unzoomed)
  /\ te' = [op |-> "removeUnzoomedImage", ret |-> Return("done")]
  /\ UNCHANGED <<queued, PreviewFrame>>

NextPreview ==
  SliceModified \/ TimerFires \/ PreviewClicked \/ UnzoomedBoxToggled \/ SceneClosed

SpecPreview == InitPreview /\ [][NextPreview]_vars

\* DataProbe.showZoomedSlice: lines 72-75.  The name is looked up on the
\* object: once line 73 has stored the value under the method's own name, the
\* lookup finds the value, and calling a bool raises TypeError.
showZoomedSlice(mod, w, value) ==
  IF mod.showZoomedSlice # None
    THEN [module |-> mod, ui |-> w, ret |-> Raise("TypeError")]
    ELSE [module |-> [mod EXCEPT !.showZoomedSlice = Some(value)],
          ui |-> IF mod.infoWidget THEN onShowZoomedImage(w, value) ELSE w,
          ret |-> Return("done")]

InitModule ==
  /\ FitIdle
  /\ ModuleIdle
  /\ ReadoutIdle
  /\ ObserverIdle
  /\ PreviewIdle
  /\ TransformIdle
  /\ AffineIdle
  /\ RoundIdle
  /\ TensorIdle
  /\ ConcIdle

ModuleFrame == <<observerVars, previewVars, fitVars, transformVars, affineVars, roundVars, tensorVars, concVars>>

\* addView: lines 57-70, run once from the timer of __init__; without a
\* 'Data Probe' frame it returns and no widget is made.
AddView ==
  \E found \in BOOLEAN :
    /\ module.addViewPending
    /\ module' = [module EXCEPT !.infoWidget = found, !.addViewPending = FALSE]
    /\ mc' = [op |-> "addView", value |-> found, ret |-> Return("done")]
    /\ UNCHANGED <<readoutVars, ModuleFrame>>

ShowZoomedSlice ==
  \E value \in BOOLEAN :
    LET result == showZoomedSlice(module, ui, value)
    IN  /\ module' = result.module
        /\ ui' = result.ui
        /\ mc' = [op |-> "showZoomedSlice", value |-> value, ret |-> result.ret]
        /\ UNCHANGED <<pe, ModuleFrame>>

\* The cursor moves once the widget observes the crosshair.
CursorMoved == module.infoWidget /\ ProcessEvent

NextModule == AddView \/ ShowZoomedSlice \/ CursorMoved

SpecModule == InitModule /\ [][NextModule]_vars

\* fitName.  A string is the sequence of its characters; the characters of
\* a name are 1, 2, 3, ... in this order, so that a part of the name shows
\* where it was cut from, and 0 is the dot.
Dot == 0
Dots == <<Dot, Dot, Dot>>
Names == {[i \in 1..n |-> i] : n \in 0..MaxLen}
NameSizes == {None} \cup {Some(n) : n \in 0..MaxSize}
DefaultNameSize == 24

Min(a, b) == IF a <= b THEN a ELSE b

\* Python's s[:stop] and s[start:] for a stop or start of either sign.
SliceTo(str, stop) ==
  IF stop >= 0 THEN SubSeq(str, 1, Min(stop, Len(str)))
               ELSE SubSeq(str, 1, Len(str) + stop)
SliceFrom(str, start) ==
  IF start >= 0 THEN SubSeq(str, start + 1, Len(str))
                ELSE SubSeq(str, IF Len(str) + start < 0 THEN 1 ELSE Len(str) + start + 1, Len(str))

\* fitName: lines 125-132.
fitName(str, size) ==
  LET given == IF size = None \/ size[1] = 0 THEN DefaultNameSize ELSE size[1]
      preSize == given \div 2
      postSize == preSize - 3
  IN  IF Len(str) > given
        THEN SliceTo(str, preSize) \o Dots \o SliceFrom(str, - postSize)
        ELSE str

InitFit ==
  /\ name \in Names
  /\ nameSize \in NameSizes
  /\ fn = NoCall
  /\ ReadoutIdle
  /\ ObserverIdle
  /\ PreviewIdle
  /\ ModuleIdle
  /\ TransformIdle
  /\ AffineIdle
  /\ RoundIdle
  /\ TensorIdle
  /\ ConcIdle

FitName ==
  /\ fn' = [op |-> "fitName", ret |-> fitName(name, nameSize)]
  /\ UNCHANGED <<name, nameSize, readoutVars, observerVars, previewVars, moduleVars,
                 transformVars, affineVars, roundVars, tensorVars, concVars>>

NextFit == FitName

SpecFit == InitFit /\ [][NextFit]_vars

\* ------------------------------------------------------------- claims
\* The four unit points of homogeneous space; a 4x4 matrix is determined by
\* their images.
Basis == {<<1, 0, 0, 0>>, <<0, 1, 0, 0>>, <<0, 0, 1, 0>>, <<0, 0, 0, 1>>}

HasParent == volumeNode.ParentTransformNode # None
Parent == volumeNode.ParentTransformNode[1]
\* The image of p under parentTransform after IJKToRAS.
ParentAfterIJKToRAS(p) == MultiplyPoint(Parent, MultiplyPoint(volumeNode.IJKToRAS, p))
\* The determinant of parentTransform * IJKToRAS, as a product of determinants.
ParentProductDet == Determinant(Parent) * Determinant(volumeNode.IJKToRAS)

\* C1: with no parent transform getXYToIJKMatrix returns RASToIJK * XYToRAS:
\* every homogeneous point is mapped by XYToRAS first and by RASToIJK second,
\* whatever IJKToRAS is.
C1_NoParentIsProduct ==
  (xf.op = "getXYToIJKMatrix" /\ ~ HasParent) =>
    /\ xf.ret.kind = "return"
    /\ \A p \in Basis :
         MultiplyPoint(xf.ret.value, p)
           = MultiplyPoint(volumeNode.RASToIJK, MultiplyPoint(sliceNode.XYToRAS, p))

\* C1 witness: a call without a parent transform on matrices whose product
\* depends on the order and whose IJKToRAS is not the inverse of RASToIJK.
C1_Witness ==
  /\ xf.op = "getXYToIJKMatrix"
  /\ ~ HasParent
  /\ Multiply4x4(volumeNode.RASToIJK, sliceNode.XYToRAS)
       # Multiply4x4(sliceNode.XYToRAS, volumeNode.RASToIJK)
  /\ Multiply4x4(volumeNode.RASToIJK, volumeNode.IJKToRAS) # Identity
  /\ xf.ret.value # Zero

\* C2: with a parent transform whose product with IJKToRAS is invertible,
\* getXYToIJKMatrix returns invert(parentTransform * IJKToRAS) * XYToRAS:
\* mapping a point by the result, then by IJKToRAS, then by the parent
\* transform gives its image under XYToRAS; RASToIJK is not read.
C2_ParentIsInverseOfComposition ==
  (xf.op = "getXYToIJKMatrix" /\ HasParent /\ ParentProductDet # 0) =>
    /\ xf.ret.kind = "return"
    /\ \A p \in Basis :
         ParentAfterIJKToRAS(MultiplyPoint(xf.ret.value, p))
           = MultiplyPoint(sliceNode.XYToRAS, p)

\* C2 witness: a call with a parent transform that does not commute with
\* IJKToRAS, on a volume whose own RASToIJK is not the inverse used.
C2_Witness ==
  /\ xf.op = "getXYToIJKMatrix"
  /\ HasParent
  /\ ParentProductDet # 0
  /\ Multiply4x4(Parent, volumeNode.IJKToRAS) # Multiply4x4(volumeNode.IJKToRAS, Parent)
  /\ volumeNode.RASToIJK # Invert(Multiply4x4(Parent, volumeNode.IJKToRAS))
  /\ xf.ret.kind = "return"

\* The matrix the claim C3 says has to be invertible is singular.
SingularInput ==
  IF HasParent THEN ParentProductDet = 0 ELSE Determinant(volumeNode.RASToIJK) = 0

\* C3 as stated: getXYToIJKMatrix fails with a SingularMatrixError whenever
\* RASToIJK or, with a parent transform, parentTransform * IJKToRAS has
\* determinant 0.
C3_SingularRaises ==
  (xf.op = "getXYToIJKMatrix" /\ SingularInput) =>
    (xf.ret.kind = "raise" /\ xf.ret.exc = "SingularMatrixError")

\* C3 as amended: getXYToIJKMatrix raises nothing on a singular matrix.
\* Without a parent transform it inverts nothing and returns
\* RASToIJK * XYToRAS; with a parent transform, Invert leaves the singular
\* product as it is, and the result maps a point by XYToRAS and then by
\* parentTransform * IJKToRAS.
C3_SingularReturnsMatrix ==
  (xf.op = "getXYToIJKMatrix" /\ SingularInput) =>
    /\ xf.ret.kind = "return"
    /\ \A p \in Basis :
         MultiplyPoint(xf.ret.value, p)
           = IF HasParent
               THEN ParentAfterIJKToRAS(MultiplyPoint(sliceNode.XYToRAS, p))
               ELSE MultiplyPoint(volumeNode.RASToIJK, MultiplyPoint(sliceNode.XYToRAS, p))

\* C3 witness: a call with a parent transform whose product with IJKToRAS is
\* singular and not zero, which returned.
C3_Witness ==
  /\ xf.op = "getXYToIJKMatrix"
  /\ HasParent
  /\ ParentProductDet = 0
  /\ Parent # Zero
  /\ xf.ret.kind = "return"
  /\ xf.ret.value # Zero

\* The first three components of the image of the view point (x, y, 0, 1)
\* under the 4x4 matrix t.
ImageOfXY(t, x, y) ==
  <<t[1][1] * x + t[1][2] * y + t[1][4],
    t[2][1] * x + t[2][2] * y + t[2][4],
    t[3][1] * x + t[3][2] * y + t[3][4]>>

\* C5: for positive view dimensions (dx, dy) getIJKCorners returns exactly 4
\* points: the images under the XY-to-IJK transform of (0,0,0), (0,dy-1,0),
\* (dx-1,dy-1,0), (dx-1,0,0), in this order.
C5_FourCornersInOrder ==
  xf.op = "getIJKCorners" =>
    LET t == getXYToIJKMatrix(sliceNode, volumeNode).value
        dx == sliceNode.Dimensions[1]
        dy == sliceNode.Dimensions[2]
    IN  /\ xf.ret.kind = "return"
        /\ Len(xf.ret.value) = 4
        /\ xf.ret.value[1] = ImageOfXY(t, 0, 0)
        /\ xf.ret.value[2] = ImageOfXY(t, 0, dy - 1)
        /\ xf.ret.value[3] = ImageOfXY(t, dx - 1, dy - 1)
        /\ xf.ret.value[4] = ImageOfXY(t, dx - 1, 0)

\* C5 witness: the corners of a view of more than one pixel each way, which
\* are four different points.
C5_Witness ==
  /\ xf.op = "getIJKCorners"
  /\ sliceNode.Dimensions[1] > 1
  /\ sliceNode.Dimensions[2] > 1
  /\ Cardinality({xf.ret.value[n] : n \in 1..4}) = 4

\* C6: applyAffine(affine, point) extends the point with a homogeneous 1,
\* multiplies it by the 4x4 matrix from the left and returns the first three
\* components of the product (no division by the fourth); both arguments are
\* afterwards what they were on entry.
C6_ApplyAffine ==
  af.op = "applyAffine" =>
    /\ Len(af.ret) = 3
    /\ \A i \in 1..3 :
         af.ret[i] = af.affine[i][1] * af.point[1] + af.affine[i][2] * af.point[2]
                       + af.affine[i][3] * af.point[3] + af.affine[i][4]
    /\ affine = af.affine
    /\ point = af.point

\* C6 witness: applyAffine on a matrix with a translation and a last row that
\* is not (0, 0, 0, 1), on a point off the origin.
C6_Witness ==
  /\ af.op = "applyAffine"
  /\ af.affine[4] # <<0, 0, 0, 1>>
  /\ <<af.affine[1][4], af.affine[2][4], af.affine[3][4]>> # <<0, 0, 0>>
  /\ af.point[1] # 0 /\ af.point[2] # 0 /\ af.point[3] # 0
  /\ af.ret # af.point

\* The integer r is a nearest integer of q quarters, and the one away from
\* zero when q lies halfway between two integers.
NearestTiesAway(r, q) ==
  /\ 4 * r - q <= 2
  /\ q - 4 * r <= 2
  /\ (4 * r - q = 2) => q > 0
  /\ (q - 4 * r = 2) => q < 0

\* C4 as stated: rounding returns, for every finite value, the nearest integer
\* with ties away from zero, and for NaN, +Inf and -Inf it returns 0 without
\* raising.
C4_RoundOrZero ==
  rnd.op = "roundIJK" =>
    /\ rnd.ret.kind = "return"
    /\ \A n \in 1..3 :
         IF ijkFloat[n].cls = "finite"
           THEN NearestTiesAway(rnd.ret.value[n], ijkFloat[n].q)
           ELSE rnd.ret.value[n] = 0

\* C7: a call of CalculateTensorScalars fails with the invalid-tensor error
\* (the ValueError of the length check) exactly when its tensor argument does
\* not have 9 components.
C7_InvalidTensorIffNot9 ==
  tc.op = "__call__" =>
    ((tc.ret.kind = "raise" /\ tc.ret.exc = "ValueError") <=> Len(tc.tensor) # 9)

\* C7 witness: a call with a 10-component argument that raised, on an object
\* that had been called before.
C7_Witness ==
  /\ tc.op = "__call__"
  /\ Len(tc.tensor) = 10
  /\ tc.used
  /\ tc.ret.kind = "raise"

\* C8 as stated: for the all-zero tensor the call returns None and no number.
C8_ZeroTensorGivesNone ==
  (tc.op = "__call__" /\ tc.tensor = ZeroTensor) =>
    (tc.ret.kind = "return" /\ tc.ret.value = None)

\* C8 as amended: the call returns None exactly when the output of the filter
\* has no scalar components, whatever the tensor; for the all-zero tensor and
\* an output with scalars it returns the number 0, as it does for a valid
\* result of 0.
C8_NoneIffNoScalars ==
  (tc.op = "__call__" /\ tc.ret.kind = "return") =>
    /\ (tc.ret.value = None) <=> (calc.output.components = 0)
    /\ (tc.tensor = ZeroTensor /\ calc.output.components > 0) =>
         tc.ret.value = Some(Integer(0))

\* C8 witness: a call with the all-zero tensor that returned the number 0.
C8_Witness ==
  /\ tc.op = "__call__"
  /\ tc.tensor = ZeroTensor
  /\ tc.ret.kind = "return"
  /\ tc.ret.value = Some(Integer(0))

\* The operation a call is to compute: the one given, FractionalAnisotropy
\* when none is given.
Wanted == IF tc.operation = None THEN VTK_TENS_FRACTIONAL_ANISOTROPY ELSE tc.operation[1]

\* C9: a call without an operation computes FractionalAnisotropy; a call with
\* an operation, the one of enumeration value 0 included, computes that
\* operation.
C9_DefaultIsFractionalAnisotropy ==
  (tc.op = "__call__" /\ tc.ret.kind = "return") =>
    /\ calc.Operation = Wanted
    /\ calc.output.components > 0 =>
         tc.ret.value = Some(ComputeScalar(Wanted, tc.tensor))

\* C9 witness: a call that selected the operation of enumeration value 0 on a
\* tensor whose trace is not its fractional anisotropy, and returned the
\* trace.
C9_Witness ==
  /\ tc.op = "__call__"
  /\ tc.operation = Some(0)
  /\ tc.ret.kind = "return"
  /\ ComputeScalar(0, tc.tensor) # FractionalAnisotropySq(tc.tensor)
  /\ tc.ret.value = Some(Integer(Trace(tc.tensor)))

\* C10: after any sequence of calls, a call returns (or raises) what the same
\* call returns on a freshly constructed object, whatever that object's
\* unwritten tensor array holds.
C10_SameAsOnFreshObject ==
  tc.op = "__call__" =>
    \A fresh \in FreshObjects :
      __call__(fresh, tc.tensor, tc.operation, tc.components).ret = tc.ret

\* C10 witness: a call without an operation that returned a number, on an
\* object whose earlier call had another tensor and another operation.
C10_Witness ==
  /\ tc.op = "__call__"
  /\ tc.used
  /\ tc.otherTensor
  /\ tc.otherOperation
  /\ tc.operation = None
  /\ tc.ret.kind = "return"
  /\ tc.ret.value # None

\* The value a call of thread t is to return: that of its own operation
\* (FractionalAnisotropy when it gave none) on its own tensor.
OwnValue(t) ==
  ComputeScalar(IF threads[t].operation = None THEN VTK_TENS_FRACTIONAL_ANISOTROPY
                                                ELSE threads[t].operation[1],
                threads[t].tensor)

\* C11 as stated: under every interleaving of the statements of two calls on
\* one object, a finished call has returned the value of its own tensor and
\* operation.
C11_EachCallReturnsOwnValue ==
  \A t \in DOMAIN threads :
    threads[t].pc = "done" => threads[t].ret = Return(Some(OwnValue(t)))

\* C12: a call that fails on the length of its argument changes nothing of
\* the object: its tensor array, its operation, its pipeline state and its
\* output are those of before the call, so that every later call meets the
\* object the failed call found.
C12_FailedCallChangesNothing ==
  [][tc'.ret.kind = "raise" => calc' = calc]_vars

\* C12 witness: a failed call on an object that an earlier valid call had
\* left with a tensor, an up-to-date pipeline and an output with scalars.
C12_Witness ==
  /\ tc.op = "__call__"
  /\ tc.ret.kind = "raise"
  /\ tc.used
  /\ calc.tensor_data # ZeroTensor
  /\ ~ calc.modified
  /\ calc.output.components > 0

\* A label shows content when it is not hidden and its text is not empty.
Shows(label) == label.shown /\ label.text # None

\* Nothing of an earlier cursor position is left on show.
ReadoutsAreReset ==
  /\ ui.viewerColor.text = ""
  /\ ui.viewInfo.text = None
  /\ \A l \in Layers : ui.layer[l] = EmptyLayer
  /\ ~ Shows(ui.displayableManagerInfo)
  /\ ~ ui.zoomedImageLabel.shown
  /\ ~ ui.viewerColor.shown /\ ~ ui.viewInfo.shown /\ ~ ui.viewerFrame
  /\ ui.showZoomedImageBox /\ ui.showUnzoomedImageBox

\* The viewer frame and a checkbox are not on show together.
FrameOrCheckboxes ==
  ~ (ui.viewerFrame /\ (ui.showZoomedImageBox \/ ui.showUnzoomedImageBox))

\* C13 as stated: a processEvent that finds the cursor in no view leaves no
\* readout showing content of an earlier position, the viewer widgets hidden
\* and both checkboxes shown; and once processEvent has run, the viewer frame
\* and the checkboxes are never shown together.
C13_ResetClearsAllReadouts ==
  /\ (pe.op = "processEvent" /\ pe.ret.kind = "return" /\ pe.ret.value = "reset") =>
       ReadoutsAreReset
  /\ pe.op = "processEvent" => FrameOrCheckboxes

\* The callbacks of the widget that are registered on some host.
WidgetCallbacks == {"processEvent", "sliceModified", "removeUnzoomedImage"}
Registered == {o[2] : o \in UNION {hosts[h] : h \in HostNames}} \cap WidgetCallbacks

\* C14 as stated: after removeObservers both tags are None and no callback
\* of the widget is registered on the crosshair node, the red slice node or
\* the scene; a second call removes nothing more, no host having been asked
\* twice to remove an observer.
C14_NoObserverRemains ==
  ro.op = "removeObservers" =>
    /\ widget.CrosshairNodeObserverTag = None
    /\ widget.redSliceNodeObserverTag = None
    /\ Registered = {}
    /\ \A h \in HostNames : ro.removed[h] <= 1

\* C15 as stated: under every interleaving of slice-modified events, timer
\* firings and preview clicks, at most one updateUnzoomedImage callback is
\* queued, and unzoomedImagePending is true exactly when one is queued.
C15_AtMostOneQueued ==
  /\ queued <= 1
  /\ unzoomed.unzoomedImagePending <=> queued = 1

\* C16 as stated: every call of showZoomedSlice on the module object, the
\* first and each later one, completes without error and, when the info
\* widget exists, leaves its showZoomedImage equal to the value passed.
C16_EveryCallSetsTheFlag ==
  mc.op = "showZoomedSlice" =>
    /\ mc.ret.kind = "return"
    /\ module.infoWidget => ui.showZoomedImage = mc.value

\* A prefix of str, the three dots and a suffix of str.
Elided(str, out) ==
  \E p \in 0..Len(str), q \in 0..Len(str) :
    out = SubSeq(str, 1, p) \o Dots \o SubSeq(str, Len(str) - q + 1, Len(str))

\* C17 as stated: for a positive nameSize, fitName returns the name itself
\* when it is no longer than nameSize, and otherwise a string of at most
\* nameSize characters made of a prefix of the name, '...' and a suffix of
\* the name.
C17_FitsInNameSize ==
  (fn.op = "fitName" /\ nameSize # None /\ nameSize[1] > 0) =>
    IF Len(name) <= nameSize[1]
      THEN fn.ret = name
      ELSE Len(fn.ret) <= nameSize[1] /\ Elided(name, fn.ret)

====
